---------------------------- MODULE Spec2Model ----------------------------
(***************************************************************************)
(* GenericSensor: a measurement conditioning pipeline (GenericSensor.h),   *)
(* its processors (filters, tables, polynomial) and their configuration    *)
(* record (BaseMeasurementProcessor.h).                                    *)
(*                                                                         *)
(* float values are modelled as exact rationals <<n, d>> in lowest terms   *)
(* with d > 0; d = 0 encodes the IEEE specials: <<0,0>> is NaN, <<1,0>> is *)
(* +Inf and <<-1,0>> is -Inf.  Rounding and signed zeros are not modelled. *)
(***************************************************************************)
EXTENDS Integers, Sequences, FiniteSets, TLC

-----------------------------------------------------------------------------
(* float arithmetic                                                        *)

Abs(n) == IF n < 0 THEN -n ELSE n

Sign(n) == IF n < 0 THEN -1 ELSE IF n > 0 THEN 1 ELSE 0

RECURSIVE GCD(_, _)
GCD(a, b) == IF b = 0 THEN a ELSE GCD(b, a % b)

\* the float with numerator n and denominator d
Norm(n, d) ==
    IF d = 0 THEN <<Sign(n), 0>>
    ELSE LET g == GCD(Abs(n), Abs(d))
         IN  <<(Sign(d) * n) \div g, Abs(d) \div g>>

F(n) == <<n, 1>>

NaN == <<0, 0>>
PInf == <<1, 0>>
NInf == <<-1, 0>>

IsNaN(a) == a = NaN
IsInf(a) == a[2] = 0 /\ a[1] # 0
IsFinite(a) == a[2] # 0

FNeg(a) == <<-a[1], a[2]>>

FAdd(a, b) ==
    IF IsNaN(a) \/ IsNaN(b) THEN NaN
    ELSE IF IsInf(a) /\ IsInf(b) THEN (IF a = b THEN a ELSE NaN)
    ELSE IF IsInf(a) THEN a
    ELSE IF IsInf(b) THEN b
    ELSE LET g == GCD(a[2], b[2])
         IN  Norm(a[1] * (b[2] \div g) + b[1] * (a[2] \div g), (a[2] \div g) * b[2])

FSub(a, b) == FAdd(a, FNeg(b))

FMul(a, b) ==
    IF IsNaN(a) \/ IsNaN(b) THEN NaN
    ELSE IF IsInf(a) \/ IsInf(b) THEN Norm(a[1] * b[1], a[2] * b[2])
    ELSE LET g == GCD(Abs(a[1]), b[2])
             h == GCD(Abs(b[1]), a[2])
         IN  Norm((a[1] \div g) * (b[1] \div h), (a[2] \div h) * (b[2] \div g))

FDiv(a, b) ==
    IF IsNaN(a) \/ IsNaN(b) THEN NaN
    ELSE IF IsInf(b) THEN (IF IsInf(a) THEN NaN ELSE F(0))
    ELSE IF b[1] = 0 THEN <<Sign(a[1]), 0>>
    ELSE IF IsInf(a) THEN <<a[1] * Sign(b[1]), 0>>
    ELSE LET g == GCD(Abs(a[1]), Abs(b[1]))
             h == GCD(a[2], b[2])
         IN  Norm((a[1] \div g) * (b[2] \div h), (a[2] \div h) * (b[1] \div g))

\* a < b; every comparison with NaN is false
FLt(a, b) ==
    IF IsNaN(a) \/ IsNaN(b) THEN FALSE
    ELSE IF IsInf(a) \/ IsInf(b)
         THEN (IF IsInf(a) /\ IsInf(b) THEN a[1] < b[1]
               ELSE IF IsInf(a) THEN a[1] < 0 ELSE b[1] > 0)
    ELSE LET g == GCD(a[2], b[2])
         IN  a[1] * (b[2] \div g) < b[1] * (a[2] \div g)

FGt(a, b) == FLt(b, a)
FEq(a, b) == ~IsNaN(a) /\ ~IsNaN(b) /\ a = b
FLe(a, b) == FLt(a, b) \/ FEq(a, b)
FGe(a, b) == FLe(b, a)
FTrue(a) == ~FEq(a, F(0))

-----------------------------------------------------------------------------
(* ProcessorConfig and the processor objects                               *)

\* a processor object: its class, its configuration record and its private
\* runtime accumulators
NoRt == [none |-> TRUE]

\* struct ProcessorConfig as BaseMeasurementProcessor() leaves it
NewConfig ==
    [u    |-> [i \in 0..7 |-> 0],
     unit |-> [i \in 0..1 |-> 0],
     f    |-> [i \in 0..15 |-> F(0)]]

POS_PROCESSOR_TYPE == 0
POS_MAPPER_TYPE == 1
POS_SUB_TYPE == 2
POS_TABLE_SIZE == 3
POS_DEGREE == 4

\* enum ProcessorType
MAPPER == 1
FILTER == 2

\* enum MapperType
TABLE == 1
FUNCTION == 2

\* enum FilterType
EXP_MOVING_AVERAGE == 1
ALPHA_BETA == 2
ADAPTIVE_ABSOLUTE_EMA == 3
KALMAN == 4
MEDIAN3 == 5

\* enum TableType
PIECEWISE_LINEAR == 1
CUBIC_SPLINE == 2

\* enum FunctionType
POLYNOMIAL == 1

SetU(c, i, v) == [c EXCEPT !.u[i] = v]
SetF(c, i, v) == [c EXCEPT !.f[i] = v]

\* BaseFilter() followed by setFilterType(type)
FilterConfig(type) ==
    SetU(SetU(NewConfig, POS_PROCESSOR_TYPE, FILTER), POS_SUB_TYPE, type)

\* BaseMapper(), BaseTableProcessor() and setTableType(type)
TableConfig(type) ==
    SetU(SetU(SetU(NewConfig, POS_PROCESSOR_TYPE, MAPPER),
              POS_MAPPER_TYPE, TABLE), POS_SUB_TYPE, type)

MAX_TABLE_SIZE == 8
OFFSET_FX == 8

tableSize(c) == c.u[POS_TABLE_SIZE]
x(c, i) == c.f[i]
fx(c, i) == c.f[OFFSET_FX + i]
degree(c) == c.u[POS_DEGREE]

-----------------------------------------------------------------------------
(* Filters: apply(o, value) gives the object after the call and the value  *)
(* returned                                                                *)

Ret(o, out) == [obj |-> o, out |-> out]

EMAFilter(a) ==
    [kind |-> "EMAFilter",
     cfg  |-> SetF(FilterConfig(EXP_MOVING_AVERAGE), 0, a),
     rt   |-> [initialized |-> FALSE, ema |-> F(0)]]

EMAFilter_apply(o, value) ==
    LET alpha == o.cfg.f[0]
        ema == IF ~o.rt.initialized THEN value
               ELSE FAdd(FMul(o.rt.ema, FSub(F(1), alpha)), FMul(value, alpha))
    IN  Ret([o EXCEPT !.rt = [initialized |-> TRUE, ema |-> ema]], ema)

AlphaBetaFilter(a, b) ==
    [kind |-> "AlphaBetaFilter",
     cfg  |-> SetF(SetF(FilterConfig(ALPHA_BETA), 0, a), 1, b),
     rt   |-> [level |-> F(0), trend |-> F(0), initialized |-> FALSE]]

AlphaBetaFilter_apply(o, value) ==
    IF ~o.rt.initialized
    THEN Ret([o EXCEPT !.rt = [level |-> value, trend |-> F(0), initialized |-> TRUE]],
             value)
    ELSE LET alpha == o.cfg.f[0]
             beta == o.cfg.f[1]
             prev_level == o.rt.level
             level == FAdd(FMul(alpha, value),
                           FMul(FSub(F(1), alpha), FAdd(o.rt.level, o.rt.trend)))
             trend == FAdd(FMul(beta, FSub(level, prev_level)),
                           FMul(FSub(F(1), beta), o.rt.trend))
         IN  Ret([o EXCEPT !.rt = [level |-> level, trend |-> trend,
                                   initialized |-> TRUE]],
                 FAdd(level, trend))

FAbs(a) == <<Abs(a[1]), a[2]>>

mapf(x0, in_min, in_max, out_min, out_max) ==
    LET x1 == IF FLt(x0, in_min) THEN in_min ELSE x0
        x2 == IF FGt(x1, in_max) THEN in_max ELSE x1
    IN  FAdd(FDiv(FMul(FSub(x2, in_min), FSub(out_max, out_min)),
                  FSub(in_max, in_min)),
             out_min)

AdaptiveAbsoluteEMAFilter(a_min, d_max) ==
    [kind |-> "AdaptiveAbsoluteEMAFilter",
     cfg  |-> SetF(SetF(FilterConfig(ADAPTIVE_ABSOLUTE_EMA), 0, a_min), 1, d_max),
     rt   |-> [alpha |-> a_min, prev_filtered |-> F(0), initialized |-> FALSE]]

\* the adaptive alpha written to the configured minimum
storeAlpha_cfg(o, alpha) == [o EXCEPT !.cfg.f[0] = alpha]

\* alpha = mapf(...): the runtime member, not part of cfg
storeAlpha(o, alpha) == [o EXCEPT !.rt.alpha = alpha]

AdaptiveAbsoluteEMAFilter_apply(o, value) ==
    IF ~o.rt.initialized
    THEN Ret([o EXCEPT !.rt.prev_filtered = value, !.rt.initialized = TRUE], value)
    ELSE LET alpha_min == o.cfg.f[0]
             delta_max == o.cfg.f[1]
             d0 == FAbs(FSub(value, o.rt.prev_filtered))
             delta == IF FGt(d0, delta_max) THEN delta_max ELSE d0
             alpha == mapf(delta, F(0), delta_max, alpha_min, F(1))
             prev == FAdd(FMul(alpha, value),
                          FMul(FSub(F(1), alpha), o.rt.prev_filtered))
         IN  Ret([storeAlpha(o, alpha) EXCEPT !.rt.prev_filtered = prev], prev)

KalmanFilter(r, q) ==
    [kind |-> "KalmanFilter",
     cfg  |-> SetF(SetF(FilterConfig(KALMAN), 0, r), 1, q),
     rt   |-> [estimate |-> F(0), error_estimate |-> F(1), initialized |-> FALSE]]

KalmanFilter_apply(o, value) ==
    IF ~o.rt.initialized
    THEN Ret([o EXCEPT !.rt.estimate = value, !.rt.initialized = TRUE], value)
    ELSE LET measurementNoise == o.cfg.f[0]
             processNoise == o.cfg.f[1]
             e1 == FAdd(o.rt.error_estimate, processNoise)
             kalman_gain == FDiv(e1, FAdd(e1, measurementNoise))
             estimate == FAdd(o.rt.estimate,
                              FMul(kalman_gain, FSub(value, o.rt.estimate)))
             e2 == FMul(e1, FSub(F(1), kalman_gain))
         IN  Ret([o EXCEPT !.rt.estimate = estimate, !.rt.error_estimate = e2],
                 estimate)

Median3Filter ==
    [kind |-> "Median3Filter",
     cfg  |-> FilterConfig(MEDIAN3),
     rt   |-> [values |-> [i \in 0..2 |-> F(0)], index |-> 0, initialized |-> FALSE]]

\* median with the second test comparing a where it should compare b
median_slip(a, b, c) ==
    IF (FGe(a, b) /\ FLe(a, c)) \/ (FGe(a, c) /\ FLe(a, b)) THEN a
    ELSE IF (FGe(b, a) /\ FLe(b, c)) \/ (FGe(a, c) /\ FLe(b, a)) THEN b
    ELSE c

median(a, b, c) ==
    IF (FGe(a, b) /\ FLe(a, c)) \/ (FGe(a, c) /\ FLe(a, b)) THEN a
    ELSE IF (FGe(b, a) /\ FLe(b, c)) \/ (FGe(b, c) /\ FLe(b, a)) THEN b
    ELSE c

Median3Filter_apply(o, value) ==
    LET values == [o.rt.values EXCEPT ![o.rt.index] = value]
        index == (o.rt.index + 1) % 3
        initialized == o.rt.initialized \/ index = 0
    IN  Ret([o EXCEPT !.rt = [values |-> values, index |-> index,
                              initialized |-> initialized]],
            IF ~initialized THEN value
            ELSE median(values[0], values[1], values[2]))

-----------------------------------------------------------------------------
(* Mappers: the polynomial and the tables                                  *)

\* BaseMapper(), BaseFunctionProcessor() and setFunctionType(type)
FunctionConfig(type) ==
    SetU(SetU(SetU(NewConfig, POS_PROCESSOR_TYPE, MAPPER),
              POS_MAPPER_TYPE, FUNCTION), POS_SUB_TYPE, type)

MAX_DEGREE == 7
MAX_COEFF_IDX == 8

setDegree(o, deg) ==
    IF deg > MAX_DEGREE THEN Ret(o, FALSE)
    ELSE Ret([o EXCEPT !.cfg.u[POS_DEGREE] = deg], TRUE)

setCoefficient(o, idx, value) ==
    IF idx > MAX_COEFF_IDX THEN Ret(o, FALSE)
    ELSE Ret([o EXCEPT !.cfg.f[idx] = value], TRUE)

\* degree() = 1; setCoefficient(0, 0.0f); setCoefficient(1, 1.0f)
PolynomialMapper ==
    LET o0 == [kind |-> "PolynomialMapper",
               cfg  |-> SetU(FunctionConfig(0), POS_DEGREE, 1),
               rt   |-> NoRt]
        o1 == setCoefficient(o0, 0, F(0)).obj
        o2 == setCoefficient(o1, 1, F(1)).obj
    IN  [o2 EXCEPT !.cfg.u[POS_SUB_TYPE] = POLYNOMIAL]

\* the loop of PolynomialMapper::apply, from coefficient i down to 0
RECURSIVE Horner(_, _, _, _)
Horner(c, i, result, value) ==
    IF i < 0 THEN result
    ELSE Horner(c, i - 1, FAdd(FMul(result, value), c.f[i]), value)

PolynomialMapper_apply(o, value) ==
    LET deg == degree(o.cfg)
    IN  Ret(o, Horner(o.cfg, deg - 1, o.cfg.f[deg], value))

\* setLinear(m, b)
setLinear(o, m, b) ==
    setCoefficient(setCoefficient(setDegree(o, 1).obj, 0, b).obj, 1, m).obj

\* a swap of the x values that leaves the f(x) values in place
Swap_xOnly(c, i, j) == [c EXCEPT !.f[i] = c.f[j], !.f[j] = c.f[i]]

Swap(c, i, j) ==
    [c EXCEPT !.f[i] = c.f[j], !.f[j] = c.f[i],
              !.f[OFFSET_FX + i] = c.f[OFFSET_FX + j],
              !.f[OFFSET_FX + j] = c.f[OFFSET_FX + i]]

\* the inner loop of sortAscending, from j on
RECURSIVE SortInner(_, _, _)
SortInner(c, i, j) ==
    IF ~(j < tableSize(c)) THEN c
    ELSE SortInner(IF FLt(x(c, j), x(c, i)) THEN Swap(c, i, j) ELSE c, i, j + 1)

\* the outer loop of sortAscending, from i on
RECURSIVE SortOuter(_, _)
SortOuter(c, i) ==
    IF ~(i < tableSize(c) - 1) THEN c
    ELSE SortOuter(SortInner(c, i, i + 1), i + 1)

sortAscending(c) == SortOuter(c, 0)

\* pushPoint storing x before it tests the size
pushPoint_writeFirst(o, xValue, fxValue) ==
    LET n == tableSize(o.cfg)
        c0 == SetF(o.cfg, n, xValue)
    IN  IF n >= MAX_TABLE_SIZE THEN Ret([o EXCEPT !.cfg = c0], FALSE)
        ELSE LET c1 == SetF(c0, OFFSET_FX + n, fxValue)
                 c2 == SetU(c1, POS_TABLE_SIZE, n + 1)
             IN  Ret([o EXCEPT !.cfg = sortAscending(c2)], TRUE)

pushPoint(o, xValue, fxValue) ==
    IF tableSize(o.cfg) >= MAX_TABLE_SIZE THEN Ret(o, FALSE)
    ELSE LET n == tableSize(o.cfg)
             c1 == SetF(SetF(o.cfg, n, xValue), OFFSET_FX + n, fxValue)
             c2 == SetU(c1, POS_TABLE_SIZE, n + 1)
         IN  Ret([o EXCEPT !.cfg = sortAscending(c2)], TRUE)

\* the loop of deletePoint, from i on
RECURSIVE ShiftDown(_, _)
ShiftDown(c, i) ==
    IF ~(i < tableSize(c) - 1) THEN c
    ELSE ShiftDown(SetF(SetF(c, i, x(c, i + 1)), OFFSET_FX + i, fx(c, i + 1)), i + 1)

deletePoint(o, idx) ==
    IF idx >= tableSize(o.cfg) THEN Ret(o, FALSE)
    ELSE LET n == tableSize(o.cfg)
             c1 == ShiftDown(o.cfg, idx)
             c2 == SetF(SetF(c1, n - 1, F(0)), OFFSET_FX + n - 1, F(0))
         IN  Ret([o EXCEPT !.cfg = SetU(c2, POS_TABLE_SIZE, n - 1)], TRUE)

PiecewiseLinearTable ==
    [kind |-> "PiecewiseLinearTable", cfg |-> TableConfig(PIECEWISE_LINEAR), rt |-> NoRt]

\* a scan that never leaves the first segment
ScanPos_stuck(c, value, pos) == pos

\* the while loop of piecewiseLinearInterpolation, from pos on
RECURSIVE ScanPos(_, _, _)
ScanPos(c, value, pos) ==
    IF FGt(value, x(c, pos)) /\ pos < tableSize(c) - 1
    THEN ScanPos(c, value, pos + 1)
    ELSE pos

piecewiseLinearInterpolation(c, value) ==
    IF tableSize(c) < 2 THEN fx(c, 0)
    ELSE LET pos == ScanPos(c, value, 1)
         IN  IF FEq(value, x(c, pos)) THEN fx(c, pos)
             ELSE FAdd(FDiv(FMul(FSub(value, x(c, pos - 1)),
                                 FSub(fx(c, pos), fx(c, pos - 1))),
                            FSub(x(c, pos), x(c, pos - 1))),
                       fx(c, pos - 1))

PiecewiseLinearTable_apply(o, value) ==
    Ret(o, piecewiseLinearInterpolation(o.cfg, value))

CubicSplineTable ==
    [kind |-> "CubicSplineTable", cfg |-> TableConfig(CUBIC_SPLINE), rt |-> NoRt]

CubicSplineTable_apply(o, value) == Ret(o, value)

\* the virtual call p->apply(value)
apply(o, value) ==
    CASE o.kind = "EMAFilter" -> EMAFilter_apply(o, value)
      [] o.kind = "AlphaBetaFilter" -> AlphaBetaFilter_apply(o, value)
      [] o.kind = "AdaptiveAbsoluteEMAFilter" -> AdaptiveAbsoluteEMAFilter_apply(o, value)
      [] o.kind = "KalmanFilter" -> KalmanFilter_apply(o, value)
      [] o.kind = "Median3Filter" -> Median3Filter_apply(o, value)
      [] o.kind = "PolynomialMapper" -> PolynomialMapper_apply(o, value)
      [] o.kind = "PiecewiseLinearTable" -> PiecewiseLinearTable_apply(o, value)
      [] o.kind = "CubicSplineTable" -> CubicSplineTable_apply(o, value)

-----------------------------------------------------------------------------
(* GenericSensor: the pipeline, called from several tasks                  *)

VARIABLES
    lock,               \* _lock: 0 when free, else the task holding it
    processStageValue,  \* float processStageValue[NUM_PROCESSORS + 1]
    processor,          \* BaseMeasurementProcessor *processor[NUM_PROCESSORS]
    pool,               \* the runtime accumulators of the processors in use
    pc,                 \* where each task is
    loc,                \* each task's arguments and locals
    published,          \* the stage arrays of the completed pushes
    lastPushed,         \* the value of the last completed push, and whether it
                        \* met no processor
    ops,                \* the number of calls made so far
    obj,                \* the processor under configuration
    last,               \* the last call on obj and what it returned
    hist,               \* the values a filter was applied to
    pushed              \* the points a table was given and not yet relieved of

pipeVars == <<lock, processStageValue, processor, pool, pc, loc,
              published, lastPushed, ops>>
procVars == <<obj, last, hist, pushed>>
vars == <<pipeVars, procVars>>

NUM_PROCESSORS == 5
NUM_MAPPERS == 3
NUM_FILTERS == 2
FILTER_OFFSET == 3

NumTasks == 2
MaxOps == 2

Tasks == 1..NumTasks
Stages == 0..NUM_PROCESSORS
Slots == 0..(NUM_PROCESSORS - 1)
PushValues == {F(1), F(2)}
NULL == "nullptr"
Procs == {"P", "M"}
ProcRefs == Procs \cup {NULL}
\* uint8_t idx: the last accepted index, the first refused one and the largest
MapperIdxValues == {2, 3, 255}
FilterIdxValues == {1, 2, 255}

NoObj == [kind |-> "none"]
NoCall == [op |-> "none"]

\* the processors the callers own: a polynomial set to x + 1 and a median
\* filter; apply writes their runtime accumulators only
ProcObjects ==
    [p \in Procs |-> IF p = "P" THEN setLinear(PolynomialMapper, F(1), F(1))
                      ELSE Median3Filter]

LocInit ==
    [v |-> F(0), i |-> 0, tested |-> NULL, idx |-> 0, proc |-> NULL,
     result |-> F(0), snap |-> <<>>, trace |-> <<>>]

\* the slots a caller has assigned before the tasks start
InitSlots ==
    { [i \in Slots |-> NULL],
      [i \in Slots |-> IF i = 2 THEN "P" ELSE IF i = 4 THEN "M" ELSE NULL] }

Init ==
    /\ lock = 0
    /\ processStageValue = [i \in Stages |-> F(0)]
    /\ processor \in InitSlots
    /\ pool = [p \in Procs |-> ProcObjects[p].rt]
    /\ pc = [t \in Tasks |-> "idle"]
    /\ loc = [t \in Tasks |-> LocInit]
    /\ published = {[i \in Stages |-> F(0)]}
    /\ lastPushed = [set |-> FALSE, v |-> F(0), plain |-> TRUE]
    /\ ops = 0
    /\ obj = NoObj
    /\ last = NoCall
    /\ hist = <<>>
    /\ pushed = <<>>

\* a virtual call through a null pointer stops the firmware
Crashed == \E t \in Tasks : pc[t] = "fault"

\* a take that does not wait for the holder
xSemaphoreTake_noWait(t) == lock' = t

\* xSemaphoreTake(_lock, portMAX_DELAY) == pdTRUE
xSemaphoreTake(t) == lock = 0 /\ lock' = t

xSemaphoreGive(t) == lock' = 0

Goto(t, label) == pc' = [pc EXCEPT ![t] = label]

push_take(t, startValue) ==
    /\ ~Crashed /\ pc[t] = "idle" /\ ops < MaxOps
    /\ xSemaphoreTake(t)
    /\ Goto(t, "push_store")
    /\ loc' = [loc EXCEPT ![t].v = startValue]
    /\ ops' = ops + 1
    /\ UNCHANGED <<processStageValue, processor, pool, published, lastPushed>>
    /\ UNCHANGED procVars

push_store(t) ==
    /\ ~Crashed /\ pc[t] = "push_store"
    /\ processStageValue' = [processStageValue EXCEPT ![0] = loc[t].v]
    /\ loc' = [loc EXCEPT ![t].i = 0]
    /\ Goto(t, "push_test")
    /\ UNCHANGED <<lock, processor, pool, published, lastPushed, ops>>
    /\ UNCHANGED procVars

\* the condition of the ternary: (processor[i]) ?
push_test(t) ==
    /\ ~Crashed /\ pc[t] = "push_test"
    /\ loc' = [loc EXCEPT ![t].tested = processor[loc[t].i]]
    /\ Goto(t, "push_apply")
    /\ UNCHANGED <<lock, processStageValue, processor, pool, published,
                   lastPushed, ops>>
    /\ UNCHANGED procVars

\* the object a slot points to
Object(p) == [ProcObjects[p] EXCEPT !.rt = pool[p]]

\* processor[i]->apply(...): processor[i] is read once more without any
\* synchronisation with setMapper and setFilter (a data race), so the call goes
\* through the pointer that was tested or through the one the slot holds now
CallTargets(tested, current) == {tested, current}

\* every stage fed from the raw value
stageInput_raw(i) == processStageValue[0]

\* the argument of apply and the value passed through: processStageValue[i]
stageInput(i) == processStageValue[i]

\* the branches of the ternary and the store to processStageValue[i + 1]
push_apply(t) ==
    LET i == loc[t].i
        nextpc == IF i + 1 < NUM_PROCESSORS THEN "push_test" ELSE "push_give"
    IN  /\ ~Crashed /\ pc[t] = "push_apply"
        /\ IF loc[t].tested = NULL
           THEN /\ processStageValue' =
                       [processStageValue EXCEPT ![i + 1] = stageInput(i)]
                /\ loc' = [loc EXCEPT ![t].i = i + 1,
                             ![t].trace = Append(@, [slot |-> NULL, rt |-> NoRt])]
                /\ Goto(t, nextpc)
                /\ UNCHANGED pool
           ELSE \E target \in CallTargets(loc[t].tested, processor[i]) :
                IF target = NULL
                THEN /\ Goto(t, "fault")
                     /\ UNCHANGED <<processStageValue, loc, pool>>
                ELSE LET r == apply(Object(target), stageInput(i))
                     IN  /\ processStageValue' =
                                [processStageValue EXCEPT ![i + 1] = r.out]
                         /\ pool' = [pool EXCEPT ![target] = r.obj.rt]
                         /\ loc' = [loc EXCEPT ![t].i = i + 1,
                                      ![t].trace = Append(@, [slot |-> target,
                                                              rt |-> pool[target]])]
                         /\ Goto(t, nextpc)
        /\ UNCHANGED <<lock, processor, published, lastPushed, ops>>
        /\ UNCHANGED procVars

push_give(t) ==
    /\ ~Crashed /\ pc[t] = "push_give"
    /\ xSemaphoreGive(t)
    /\ published' = published \cup {processStageValue}
    /\ lastPushed' = [set |-> TRUE, v |-> loc[t].v,
                      plain |-> \A k \in 1..Len(loc[t].trace) : loc[t].trace[k].slot = NULL]
    /\ loc' = [loc EXCEPT ![t] = LocInit]
    /\ Goto(t, "idle")
    /\ UNCHANGED <<processStageValue, processor, pool, ops>>
    /\ UNCHANGED procVars

getReading_take(t) ==
    /\ ~Crashed /\ pc[t] = "idle" /\ ops < MaxOps
    /\ xSemaphoreTake(t)
    /\ Goto(t, "getReading_read")
    /\ ops' = ops + 1
    /\ UNCHANGED <<processStageValue, processor, pool, loc, published, lastPushed>>
    /\ UNCHANGED procVars

getReading_read(t) ==
    /\ ~Crashed /\ pc[t] = "getReading_read"
    /\ loc' = [loc EXCEPT ![t].result = processStageValue[NUM_PROCESSORS]]
    /\ Goto(t, "getReading_give")
    /\ UNCHANGED <<lock, processStageValue, processor, pool, published,
                   lastPushed, ops>>
    /\ UNCHANGED procVars

getReading_give(t) ==
    /\ ~Crashed /\ pc[t] = "getReading_give"
    /\ xSemaphoreGive(t)
    /\ loc' = [loc EXCEPT ![t] = LocInit]
    /\ Goto(t, "idle")
    /\ UNCHANGED <<processStageValue, processor, pool, published, lastPushed, ops>>
    /\ UNCHANGED procVars

getProcessStagesValues_take(t) ==
    /\ ~Crashed /\ pc[t] = "idle" /\ ops < MaxOps
    /\ xSemaphoreTake(t)
    /\ Goto(t, "getStages_give")
    /\ ops' = ops + 1
    /\ UNCHANGED <<processStageValue, processor, pool, loc, published, lastPushed>>
    /\ UNCHANGED procVars

\* stages = processStageValue; xSemaphoreGive(_lock); return stages
getProcessStagesValues_give(t) ==
    /\ ~Crashed /\ pc[t] = "getStages_give"
    /\ xSemaphoreGive(t)
    /\ loc' = [loc EXCEPT ![t].snap = <<>>]
    /\ Goto(t, "reading")
    /\ UNCHANGED <<processStageValue, processor, pool, published, lastPushed, ops>>
    /\ UNCHANGED procVars

\* the caller reads the next stage through the pointer it was given
read_stage(t) ==
    /\ ~Crashed /\ pc[t] = "reading"
    /\ loc' = [loc EXCEPT ![t].snap = Append(@, processStageValue[Len(@)])]
    /\ Goto(t, IF Len(loc[t].snap) + 1 = NUM_PROCESSORS + 1 THEN "read_done" ELSE "reading")
    /\ UNCHANGED <<lock, processStageValue, processor, pool, published,
                   lastPushed, ops>>
    /\ UNCHANGED procVars

\* an off-by-one bound
isMapperIdx_le(idx) == idx <= NUM_MAPPERS

\* if (idx < 3)
isMapperIdx(idx) == idx < NUM_MAPPERS

\* if (idx < 2)
isFilterIdx(idx) == idx < NUM_FILTERS

setMapper(t, idx, proc) ==
    /\ ~Crashed /\ pc[t] = "idle" /\ ops < MaxOps
    /\ processor' = IF isMapperIdx(idx) THEN [processor EXCEPT ![idx] = proc]
                    ELSE processor
    /\ loc' = [loc EXCEPT ![t].idx = idx, ![t].proc = proc]
    /\ Goto(t, "setMapper_ret")
    /\ ops' = ops + 1
    /\ UNCHANGED <<lock, processStageValue, pool, published, lastPushed>>
    /\ UNCHANGED procVars

setFilter(t, idx, proc) ==
    /\ ~Crashed /\ pc[t] = "idle" /\ ops < MaxOps
    /\ processor' = IF isFilterIdx(idx) THEN [processor EXCEPT ![idx + FILTER_OFFSET] = proc]
                    ELSE processor
    /\ loc' = [loc EXCEPT ![t].idx = idx, ![t].proc = proc]
    /\ Goto(t, "setFilter_ret")
    /\ ops' = ops + 1
    /\ UNCHANGED <<lock, processStageValue, pool, published, lastPushed>>
    /\ UNCHANGED procVars

\* the call returns to the task's loop
return(t) ==
    /\ ~Crashed /\ pc[t] \in {"read_done", "setMapper_ret", "setFilter_ret"}
    /\ loc' = [loc EXCEPT ![t] = LocInit]
    /\ Goto(t, "idle")
    /\ UNCHANGED <<lock, processStageValue, processor, pool, published,
                   lastPushed, ops>>
    /\ UNCHANGED procVars

Next ==
    \E t \in Tasks :
        \/ \E v \in PushValues : push_take(t, v)
        \/ push_store(t)
        \/ push_test(t)
        \/ push_apply(t)
        \/ push_give(t)
        \/ getReading_take(t)
        \/ getReading_read(t)
        \/ getReading_give(t)
        \/ getProcessStagesValues_take(t)
        \/ getProcessStagesValues_give(t)
        \/ read_stage(t)
        \/ \E idx \in MapperIdxValues, proc \in ProcRefs : setMapper(t, idx, proc)
        \/ \E idx \in FilterIdxValues, proc \in ProcRefs : setFilter(t, idx, proc)
        \/ return(t)

Spec == Init /\ [][Next]_vars

-----------------------------------------------------------------------------
(* Properties of the pipeline                                              *)

AsStages(snap) == [i \in Stages |-> snap[i + 1]]

\* the stage arrays a completed push has left, the one of a push that has
\* written its last stage and not yet given the lock back included
Completed ==
    published \cup (IF \E t \in Tasks : pc[t] = "push_give"
                    THEN {processStageValue} ELSE {})

\* C1: every value getReading reads and every set of stage values read through
\* the pointer getProcessStagesValues returns is the stage chain of one
\* completed push, or the initial one
C1_ReadersSeeOnePush ==
    \A t \in Tasks :
        /\ pc[t] = "read_done" => AsStages(loc[t].snap) \in Completed
        /\ pc[t] = "getReading_give" =>
               \E s \in published : s[NUM_PROCESSORS] = loc[t].result

InLock(t) ==
    pc[t] \in {"push_store", "push_test", "push_apply", "push_give", "fault",
               "getReading_read", "getReading_give", "getStages_give"}

\* C2: at most one task is inside a lock-guarded section, and it holds the lock
C2_MutualExclusion ==
    /\ \A t1, t2 \in Tasks : InLock(t1) /\ InLock(t2) => t1 = t2
    /\ \A t \in Tasks : InLock(t) => lock = t

\* a push is half way through its stages while another task reads the stages
\* through the pointer it was given
C2_Witness ==
    \E t1, t2 \in Tasks :
        /\ t1 # t2
        /\ pc[t1] = "push_apply" /\ loc[t1].i = 3
        /\ pc[t2] = "reading" /\ Len(loc[t2].snap) = 2

\* C3: when a push has written its last stage, stage 0 is the pushed value and
\* each stage i+1 is what the processor met in slot i returned for stage i, or
\* stage i where the slot was empty; after a push that met no processor
\* getReading returns the pushed value
C3_PushChain ==
    \A t \in Tasks :
        /\ pc[t] = "push_give" =>
               /\ processStageValue[0] = loc[t].v
               /\ Len(loc[t].trace) = NUM_PROCESSORS
               /\ \A i \in Slots :
                      processStageValue[i + 1] =
                          IF loc[t].trace[i + 1].slot = NULL
                          THEN processStageValue[i]
                          ELSE apply([ProcObjects[loc[t].trace[i + 1].slot] EXCEPT
                                          !.rt = loc[t].trace[i + 1].rt],
                                     processStageValue[i]).out
        /\ (pc[t] = "getReading_give" /\ lastPushed.set /\ lastPushed.plain) =>
               loc[t].result = lastPushed.v

\* a push through the polynomial and the median filter has written stage 5
C3_Witness ==
    \E t \in Tasks :
        /\ pc[t] = "push_give"
        /\ loc[t].trace[3].slot = "P" /\ loc[t].trace[5].slot = "M"
        /\ loc[t].trace[2].slot = NULL
        /\ processStageValue[3] # processStageValue[2]

\* C6: setMapper stores in slot idx when idx is in 0..2, setFilter in slot
\* idx + 3 when idx is in 0..1; no call changes another slot or a stage value
C6_SettersTargetOneSlot ==
    [][\A t \in Tasks :
          LET idx == loc'[t].idx
              p == loc'[t].proc
          IN  /\ (pc[t] = "idle" /\ pc'[t] = "setMapper_ret") =>
                     /\ DOMAIN processor' = Slots
                     /\ \A s \in Slots :
                            processor'[s] = IF idx \in 0..2 /\ s = idx THEN p
                                            ELSE processor[s]
                     /\ processStageValue' = processStageValue
              /\ (pc[t] = "idle" /\ pc'[t] = "setFilter_ret") =>
                     /\ DOMAIN processor' = Slots
                     /\ \A s \in Slots :
                            processor'[s] = IF idx \in 0..1 /\ s = idx + 3 THEN p
                                            ELSE processor[s]
                     /\ processStageValue' = processStageValue]_vars

\* setMapper was called with the first index it refuses and setFilter with one
\* it accepts
C6_Witness ==
    \E t1, t2 \in Tasks :
        /\ pc[t1] = "setMapper_ret" /\ loc[t1].idx = 3 /\ loc[t1].proc = "P"
        /\ pc[t2] = "setFilter_ret" /\ loc[t2].idx = 1 /\ loc[t2].proc = "M"
        /\ processor[4] = "M"

\* C16: push never calls apply through a slot that is empty at the moment of
\* the call, also while setMapper or setFilter reassigns or clears the slot in
\* another task between the test for presence and the call
C16_NoCallThroughEmptySlot == \A t \in Tasks : pc[t] # "fault"

-----------------------------------------------------------------------------
(* One processor, configured and applied by a single caller                *)

MaxHist == 4
\* a filter is applied again only while the denominator of its last output
\* is at most MaxDen
MaxDen == 64

\* the (x, f(x)) pairs handed to pushPoint
Points == {<<F(0), F(0)>>, <<F(10), F(100)>>, <<F(10), F(0)>>}
ApplyValues == {F(0), F(1), F(3), F(5), F(9), F(10)}
\* uint8_t idx of deletePoint
DeleteIdxValues == {0, 1, 7, 8, 255}
\* uint8_t deg of setDegree
DegreeValues == {0, 1, 7, 8, 255}
\* uint8_t idx and float value of setCoefficient
CoeffIdxValues == {0, 1, 8, 9, 255}
CoeffValues == {F(0), F(2)}

TableKinds == {"PiecewiseLinearTable", "CubicSplineTable"}
FilterKinds == {"EMAFilter", "AlphaBetaFilter", "AdaptiveAbsoluteEMAFilter",
                "KalmanFilter", "Median3Filter"}

\* the processors as their constructors leave them
NewObjects ==
    {PiecewiseLinearTable, CubicSplineTable, PolynomialMapper, Median3Filter,
     EMAFilter(F(1)), EMAFilter(Norm(1, 2)),
     AlphaBetaFilter(Norm(1, 2), Norm(1, 4)),
     AdaptiveAbsoluteEMAFilter(Norm(1, 2), F(4)),
     AdaptiveAbsoluteEMAFilter(Norm(1, 2), F(0)),
     KalmanFilter(F(1), F(0)), KalmanFilter(F(1), F(1))}

NoPoints == [p \in Points |-> 0]

\* the points in slots 0..size-1 of a table, counted
TablePoints(c) ==
    [p \in Points |->
        Cardinality({i \in 0..(tableSize(c) - 1) : <<x(c, i), fx(c, i)>> = p})]

InitProcessor ==
    /\ obj \in NewObjects
    /\ last = NoCall
    /\ hist = <<>>
    /\ pushed = NoPoints
    /\ lock = 0
    /\ processStageValue = <<>>
    /\ processor = <<>>
    /\ pool = <<>>
    /\ pc = <<>>
    /\ loc = <<>>
    /\ published = {}
    /\ lastPushed = [set |-> FALSE]
    /\ ops = 0

PushPoint(xValue, fxValue) ==
    /\ obj.kind \in TableKinds
    /\ \E r \in {pushPoint(obj, xValue, fxValue)} :
        /\ obj' = r.obj
        /\ last' = [op |-> "pushPoint", a |-> <<xValue, fxValue>>, ret |-> r.out,
                    size |-> tableSize(obj.cfg), changed |-> r.obj # obj]
        /\ pushed' = IF r.out
                     THEN [pushed EXCEPT ![<<xValue, fxValue>>] = @ + 1]
                     ELSE pushed
        /\ UNCHANGED <<hist, pipeVars>>

DeletePoint(idx) ==
    /\ obj.kind \in TableKinds
    /\ \E r \in {deletePoint(obj, idx)} :
        /\ obj' = r.obj
        /\ last' = [op |-> "deletePoint", a |-> <<idx>>, ret |-> r.out,
                    size |-> tableSize(obj.cfg), changed |-> r.obj # obj]
        /\ pushed' = IF r.out
                     THEN [pushed EXCEPT ![<<x(obj.cfg, idx), fx(obj.cfg, idx)>>] = @ - 1]
                     ELSE pushed
        /\ UNCHANGED <<hist, pipeVars>>

SetDegree(deg) ==
    /\ obj.kind = "PolynomialMapper"
    /\ \E r \in {setDegree(obj, deg)} :
        /\ obj' = r.obj
        /\ last' = [op |-> "setDegree", a |-> <<deg>>, ret |-> r.out,
                    size |-> 0, changed |-> r.obj # obj]
        /\ UNCHANGED <<hist, pushed, pipeVars>>

SetCoefficient(idx, value) ==
    /\ obj.kind = "PolynomialMapper"
    /\ \E r \in {setCoefficient(obj, idx, value)} :
        /\ obj' = r.obj
        /\ last' = [op |-> "setCoefficient", a |-> <<idx, value>>, ret |-> r.out,
                    size |-> 0, changed |-> r.obj # obj]
        /\ UNCHANGED <<hist, pushed, pipeVars>>

Apply(value) ==
    /\ obj.kind \in FilterKinds => Len(hist) < MaxHist
    /\ (obj.kind \in FilterKinds /\ last.op = "apply") => last.ret[2] <= MaxDen
    /\ \E r \in {apply(obj, value)} :
        /\ obj' = r.obj
        /\ last' = [op |-> "apply", a |-> <<value>>, ret |-> r.out,
                    size |-> 0, changed |-> r.obj.cfg # obj.cfg]
        /\ hist' = IF obj.kind \in FilterKinds THEN Append(hist, value) ELSE hist
        /\ UNCHANGED <<pushed, pipeVars>>

NextProcessor ==
    \/ \E p \in Points : PushPoint(p[1], p[2])
    \/ \E idx \in DeleteIdxValues : DeletePoint(idx)
    \/ \E deg \in DegreeValues : SetDegree(deg)
    \/ \E idx \in CoeffIdxValues, value \in CoeffValues : SetCoefficient(idx, value)
    \/ \E value \in ApplyValues : Apply(value)

SpecProcessor == InitProcessor /\ [][NextProcessor]_vars

-----------------------------------------------------------------------------
(* Properties of one processor                                             *)

IsTable == obj.kind \in TableKinds

\* C4: after any sequence of pushPoint and deletePoint calls on a table that
\* started empty, slots 0..size-1 hold exactly the pushed pairs that were not
\* deleted, each x with its own f(x), sorted ascending by x, and size is at
\* most 8.
C4_TableSortedExact ==
    IsTable =>
        LET c == obj.cfg
            n == tableSize(c)
        IN  /\ n <= MAX_TABLE_SIZE
            /\ \A i \in 0..(n - 2) : FLe(x(c, i), x(c, i + 1))
            /\ TablePoints(c) = pushed
            /\ n = pushed[<<F(0), F(0)>>] + pushed[<<F(10), F(100)>>]
                   + pushed[<<F(10), F(0)>>]

\* a full table whose last pushed point had the smallest x and was sorted to
\* the front, with both f(x) values of x = 10 behind it
C4_Witness ==
    /\ IsTable
    /\ tableSize(obj.cfg) = MAX_TABLE_SIZE
    /\ last.op = "pushPoint" /\ last.ret
    /\ last.a = <<F(0), F(0)>>
    /\ pushed[<<F(0), F(0)>>] = 1
    /\ pushed[<<F(10), F(100)>>] > 0
    /\ pushed[<<F(10), F(0)>>] > 0

\* C7: pushPoint on a table holding 8 points, deletePoint with idx >= size,
\* setDegree with deg > 7 and setCoefficient with idx > 8 return false and
\* leave the processor as it was; every other call of the four returns true.
C7_FailureLeavesState ==
    /\ last.op = "pushPoint" => (~last.ret <=> last.size >= 8)
    /\ last.op = "deletePoint" => (~last.ret <=> last.a[1] >= last.size)
    /\ last.op = "setDegree" => (~last.ret <=> last.a[1] > 7)
    /\ last.op = "setCoefficient" => (~last.ret <=> last.a[1] > 8)
    /\ last.op \in {"pushPoint", "deletePoint", "setDegree", "setCoefficient"}
           => (~last.ret => ~last.changed)

\* a ninth pushPoint has just been refused
C7_Witness ==
    /\ last.op = "pushPoint"
    /\ ~last.ret
    /\ last.size = 8
    /\ tableSize(obj.cfg) = 8

MiddleOf(a, b, c) ==
    CHOOSE m \in {a, b, c} :
        LET s == <<a, b, c>>
        IN  /\ Cardinality({k \in 1..3 : FLe(s[k], m)}) >= 2
            /\ Cardinality({k \in 1..3 : FGe(s[k], m)}) >= 2

\* C9: a fresh Median3Filter returns its 1st and 2nd input unchanged and from
\* the 3rd apply on the median of the last three inputs, which are the three
\* the ring buffer holds; inputs 5, 1, 3 give 3 and a following 9 gives 3.
C9_Median3 ==
    (obj.kind = "Median3Filter" /\ last.op = "apply") =>
        LET n == Len(hist)
        IN  /\ n <= 2 => last.ret = hist[n]
            /\ n >= 3 => last.ret = MiddleOf(hist[n - 2], hist[n - 1], hist[n])
            /\ n >= 3 => \A j \in 0..2 : obj.rt.values[(n - 1 - j) % 3] = hist[n - j]
            /\ hist = <<F(5), F(1), F(3)>> => last.ret = F(3)
            /\ hist = <<F(5), F(1), F(3), F(9)>> => last.ret = F(3)

\* 5, 1, 3, 9 have been fed to the filter
C9_Witness ==
    /\ obj.kind = "Median3Filter"
    /\ last.op = "apply"
    /\ hist = <<F(5), F(1), F(3), F(9)>>
    /\ last.ret = F(3)

IsPiecewiseApply == obj.kind = "PiecewiseLinearTable" /\ last.op = "apply"

\* the indices of the breakpoints of c whose x equals v
BreakpointsAt(c, v) == {i \in 0..(tableSize(c) - 1) : FEq(x(c, i), v)}

\* the least element of a non-empty set of indices
Lowest(S) == CHOOSE i \in S : \A j \in S : i <= j

\* out lies on the line through breakpoints i and i+1 at v
OnSegment(c, i, v, out) ==
    FMul(FSub(out, fx(c, i)), FSub(x(c, i + 1), x(c, i)))
        = FMul(FSub(v, x(c, i)), FSub(fx(c, i + 1), fx(c, i)))

\* what every reading of the claim shares: interpolation strictly between
\* adjacent breakpoints, the example, and tables of fewer than 2 points
PiecewiseRest(c, v, out) ==
    LET n == tableSize(c)
    IN  /\ n >= 2 => \A i \in 0..(n - 2) :
               (FLt(x(c, i), v) /\ FLt(v, x(c, i + 1))) => OnSegment(c, i, v, out)
        /\ (n = 2 /\ x(c, 0) = F(0) /\ fx(c, 0) = F(0) /\ x(c, 1) = F(10)
                  /\ fx(c, 1) = F(100) /\ v = F(5)) => out = F(50)
        /\ n = 1 => out = fx(c, 0)
        /\ n = 0 => out = F(0)

\* C10 as stated: with at least 2 points, apply at an input equal to a
\* breakpoint x_i returns the stored f(x_i) of that breakpoint, for every
\* breakpoint i with that x; the rest as in PiecewiseRest.
C10_ExactAtEveryBreakpoint ==
    IsPiecewiseApply =>
        LET c == obj.cfg
            v == last.a[1]
        IN  /\ tableSize(c) >= 2 =>
                \A i \in BreakpointsAt(c, v) : last.ret = fx(c, i)
            /\ PiecewiseRest(c, v, last.ret)

\* C10: with at least 2 points, apply at an input equal to a breakpoint x_i
\* returns the stored f(x_i) when no other breakpoint has that x, and when
\* several breakpoints share it the stored f of the one with the lowest index
\* >= 1; strictly between two adjacent breakpoints it returns their linear
\* interpolation ((0,0),(10,100) give 50 at 5); with 1 point it returns that
\* point's f(x) and with none 0, whatever the input.
C10_PiecewiseLinear ==
    IsPiecewiseApply =>
        LET c == obj.cfg
            v == last.a[1]
            at == BreakpointsAt(c, v)
        IN  /\ (tableSize(c) >= 2 /\ at # {}) =>
                last.ret = fx(c, IF at = {0} THEN 0 ELSE Lowest(at \ {0}))
            /\ PiecewiseRest(c, v, last.ret)

\* apply at 10 on a table whose two first points both have x = 10, with
\* different f(x), after an earlier point was deleted
C10_Witness ==
    /\ IsPiecewiseApply
    /\ last.a = <<F(10)>>
    /\ tableSize(obj.cfg) >= 2
    /\ BreakpointsAt(obj.cfg, F(10)) = 0..(tableSize(obj.cfg) - 1)
    /\ fx(obj.cfg, 0) # fx(obj.cfg, 1)
    /\ pushed[<<F(0), F(0)>>] = 0

IsAdaptiveApply ==
    /\ obj.kind = "AdaptiveAbsoluteEMAFilter"
    /\ last.op = "apply"
    /\ Len(hist) >= 2

\* for delta_max > 0 the recomputed alpha lies in [alpha_min, 1]
AlphaInRange ==
    (IsAdaptiveApply /\ FGt(obj.cfg.f[1], F(0))) =>
        (FLe(obj.cfg.f[0], obj.rt.alpha) /\ FLe(obj.rt.alpha, F(1)))

\* C14: with delta_max = 0 every apply after the priming one uses alpha = 1,
\* returns its input and divides nothing by zero; for delta_max > 0 the
\* recomputed alpha lies in [alpha_min, 1].
C14_DegenerateMapGuarded ==
    /\ (IsAdaptiveApply /\ obj.cfg.f[1] = F(0)) =>
           /\ IsFinite(obj.rt.alpha)
           /\ obj.rt.alpha = F(1)
           /\ last.ret = last.a[1]
    /\ AlphaInRange

-----------------------------------------------------------------------------
(* The index-taking setters of the configuration record                    *)

NUM_FLOATS == 16
NUM_BYTES == 8
NUM_UNITS == 2

\* the uint8_t index of the three setters
IdxValues == 0..255
FloatValues == {F(7)}
ByteValues == {1}
UnitValues == {1}

constrain(amt, low, high) ==
    IF amt < low THEN low ELSE IF amt > high THEN high ELSE amt

\* a store to the record: the subscript used, the member the store reaches
\* and the record after it
Store(o, used, landed) == [obj |-> o, used |-> used, landed |-> landed]

\* the 32-bit word w with byte k (little endian) replaced by b
WithByte(w, k, b) ==
    LET p == IF k = 0 THEN 1 ELSE IF k = 1 THEN 256 ELSE IF k = 2 THEN 65536 ELSE 16777216
    IN  w - ((w \div p) % 256) * p + b * p

\* the float whose representation is the 32-bit word w
FromBits(w) == [bits |-> w]

setFloat(o, idx, f) ==
    LET i == constrain(idx, 0, 15)
    IN  {Store([o EXCEPT !.cfg.f[i] = f], i, "f")}

\* cfg.u has 8 elements and is followed by unit[0]: a subscript of 8..11 is
\* past the end of u, where the store either reaches the bytes of unit[0] or
\* is dropped by the build
setByte(o, idx, u) ==
    LET i == constrain(idx, 0, 11)
    IN  IF i < NUM_BYTES THEN {Store([o EXCEPT !.cfg.u[i] = u], i, "u")}
        ELSE {Store([o EXCEPT !.cfg.unit[0] = WithByte(@, i - NUM_BYTES, u)], i, "unit"),
              Store(o, i, "nowhere")}

\* cfg.unit has 2 elements and is followed by f[0..15], which ends the
\* record: a subscript of 2..17 is past the end of unit, where the store
\* either reaches f[idx - 2] or is dropped, and one of 18 or more is past the
\* end of the record
setUnits(o, idx, packedUnits) ==
    IF idx < NUM_UNITS THEN {Store([o EXCEPT !.cfg.unit[idx] = packedUnits], idx, "unit")}
    ELSE IF idx - NUM_UNITS < NUM_FLOATS
    THEN {Store([o EXCEPT !.cfg.f[idx - NUM_UNITS] = FromBits(packedUnits)], idx, "f"),
          Store(o, idx, "nowhere")}
    ELSE {Store(o, idx, "outside"), Store(o, idx, "nowhere")}

InitConfig ==
    /\ obj \in {PolynomialMapper, Median3Filter}
    /\ last = NoCall
    /\ hist = <<>>
    /\ pushed = <<>>
    /\ lock = 0
    /\ processStageValue = <<>>
    /\ processor = <<>>
    /\ pool = <<>>
    /\ pc = <<>>
    /\ loc = <<>>
    /\ published = {}
    /\ lastPushed = [set |-> FALSE]
    /\ ops = 0

\* one call of a setter, with result r
Called(op, idx, value, r) ==
    /\ obj' = r.obj
    /\ last' = [op |-> op, a |-> <<idx, value>>, used |-> r.used, landed |-> r.landed]
    /\ ops' = ops + 1
    /\ UNCHANGED <<hist, pushed, lock, processStageValue, processor, pool, pc,
                   loc, published, lastPushed>>

SetFloat(idx, f) ==
    /\ ops < MaxOps
    /\ \E r \in setFloat(obj, idx, f) : Called("setFloat", idx, f, r)

SetByte(idx, u) ==
    /\ ops < MaxOps
    /\ \E r \in setByte(obj, idx, u) : Called("setByte", idx, u, r)

SetUnits(idx, packedUnits) ==
    /\ ops < MaxOps
    /\ \E r \in setUnits(obj, idx, packedUnits) : Called("setUnits", idx, packedUnits, r)

NextConfig ==
    \/ \E idx \in IdxValues, f \in FloatValues : SetFloat(idx, f)
    \/ \E idx \in IdxValues, u \in ByteValues : SetByte(idx, u)
    \/ \E idx \in IdxValues, w \in UnitValues : SetUnits(idx, w)

SpecConfig == InitConfig /\ [][NextConfig]_vars

\* the number of elements of the array a setter targets
TargetSize(op) ==
    IF op = "setFloat" THEN NUM_FLOATS ELSE IF op = "setByte" THEN NUM_BYTES ELSE NUM_UNITS

\* the member a setter targets
Target(op) ==
    IF op = "setFloat" THEN "f" ELSE IF op = "setByte" THEN "u" ELSE "unit"

\* C5: for every index 0..255 passed to setFloat, setByte or setUnits the
\* subscript used is the index clamped to the target array (16 floats,
\* 8 bytes, 2 unit words) and the write lands in that array.
C5_IndexClamped ==
    last.op \in {"setFloat", "setByte", "setUnits"} =>
        /\ last.used = constrain(last.a[1], 0, TargetSize(last.op) - 1)
        /\ last.landed = Target(last.op)

-----------------------------------------------------------------------------
(* CubicHermiteMonotonicSplineTable: the derivatives kept with the points   *)

CUBIC_HERMITE_MONOTONIC_SPLINE == 3

\* the number of pushPoint and deletePoint calls made on the spline table
MaxCalls == 4

\* the (x, f(x)) pairs handed to the spline table's pushPoint
HermitePoints ==
    {<<F(0), F(0)>>, <<F(10), F(100)>>, <<F(20), F(300)>>, <<F(30), F(0)>>}

\* what a read outside the local array delta can find on the stack
StackValues == {F(0), F(13), NaN}

CubicHermiteMonotonicSplineTable ==
    [kind |-> "CubicHermiteMonotonicSplineTable",
     cfg  |-> TableConfig(CUBIC_HERMITE_MONOTONIC_SPLINE),
     rt   |-> [m |-> [i \in 0..(MAX_TABLE_SIZE - 1) |-> F(0)]]]

\* delta[i] = (fx(i + 1) - fx(i)) / (x(i + 1) - x(i))
SegmentSlope(c, i) ==
    FDiv(FSub(fx(c, i + 1), fx(c, i)), FSub(x(c, i + 1), x(c, i)))

\* a read of delta[k]: the array has the elements 0..size-2, and a read
\* outside it finds the stack value g
delta(c, k, g) ==
    IF k >= 0 /\ k < tableSize(c) - 1 THEN SegmentSlope(c, k) ELSE g

\* the loop over the interior points of updateSlopes, from i on
RECURSIVE InteriorSlopes(_, _, _, _)
InteriorSlopes(m, c, i, g) ==
    IF ~(i < tableSize(c) - 1) THEN m
    ELSE LET d0 == delta(c, i - 1, g)
             d1 == delta(c, i, g)
             mi == IF FGt(FMul(d0, d1), F(0))
                   THEN FDiv(FMul(FMul(F(2), d0), d1), FAdd(d0, d1))
                   ELSE F(0)
         IN  InteriorSlopes([m EXCEPT ![i] = mi], c, i + 1, g)

\* the indices of delta that updateSlopes reads for a table of n points
DeltaReads(n) ==
    {0, n - 2} \cup UNION {{i - 1, i} : i \in 1..(n - 2)}

\* updateSlopes: the derivatives after it and the indices of delta it read
updateSlopes(o, g) ==
    LET c == o.cfg
        n == tableSize(c)
        m0 == [o.rt.m EXCEPT ![0] = delta(c, 0, g)]
        m1 == [m0 EXCEPT ![n - 1] = delta(c, n - 2, g)]
    IN  [obj |-> [o EXCEPT !.rt.m = InteriorSlopes(m1, c, 1, g)],
         reads |-> DeltaReads(n)]

\* CubicHermiteMonotonicSplineTable::pushPoint
Hermite_pushPoint(o, xValue, fxValue, g) ==
    LET r == pushPoint(o, xValue, fxValue)
    IN  IF r.out
        THEN LET u == updateSlopes(r.obj, g)
             IN  [obj |-> u.obj, out |-> TRUE, reads |-> u.reads]
        ELSE [obj |-> r.obj, out |-> FALSE, reads |-> {}]

InitHermite ==
    /\ obj = CubicHermiteMonotonicSplineTable
    /\ last = NoCall
    /\ hist = <<>>
    /\ pushed = <<>>
    /\ lock = 0
    /\ processStageValue = <<>>
    /\ processor = <<>>
    /\ pool = <<>>
    /\ pc = <<>>
    /\ loc = <<>>
    /\ published = {}
    /\ lastPushed = [set |-> FALSE]
    /\ ops = 0

\* one call on the spline table, with result r
HermiteCalled(op, a, r, reads) ==
    /\ obj' = r.obj
    /\ last' = [op |-> op, a |-> a, ret |-> r.out, reads |-> reads]
    /\ ops' = ops + 1
    /\ UNCHANGED <<hist, pushed, lock, processStageValue, processor, pool, pc,
                   loc, published, lastPushed>>

HermitePushPoint(xValue, fxValue) ==
    /\ ops < MaxCalls
    /\ \E g \in StackValues :
           \E r \in {Hermite_pushPoint(obj, xValue, fxValue, g)} :
               HermiteCalled("pushPoint", <<xValue, fxValue>>, r, r.reads)

\* deletePoint is the one inherited from BaseTableProcessor
HermiteDeletePoint(idx) ==
    /\ ops < MaxCalls
    /\ \E r \in {deletePoint(obj, idx)} :
           HermiteCalled("deletePoint", <<idx>>, r, {})

NextHermite ==
    \/ \E p \in HermitePoints : HermitePushPoint(p[1], p[2])
    \/ \E idx \in DeleteIdxValues : HermiteDeletePoint(idx)

SpecHermite == InitHermite /\ [][NextHermite]_vars

\* the PCHIP derivative at breakpoint i of the n >= 2 points of c
Pchip(c, i) ==
    LET n == tableSize(c)
    IN  IF i = 0 THEN SegmentSlope(c, 0)
        ELSE IF i = n - 1 THEN SegmentSlope(c, n - 2)
        ELSE LET d0 == SegmentSlope(c, i - 1)
                 d1 == SegmentSlope(c, i)
             IN  IF FGt(FMul(d0, d1), F(0))
                 THEN FDiv(FMul(F(2), FMul(d0, d1)), FAdd(d0, d1))
                 ELSE F(0)

\* the stored derivatives are those of the points in the table
DerivativesCurrent ==
    tableSize(obj.cfg) >= 2 =>
        \A i \in 0..(tableSize(obj.cfg) - 1) : obj.rt.m[i] = Pchip(obj.cfg, i)

\* updateSlopes read only elements of delta
ReadsInsideDelta ==
    (last.op = "pushPoint" /\ last.ret) =>
        last.reads \subseteq 0..(tableSize(obj.cfg) - 2)

\* C15: after any sequence of pushPoint and deletePoint calls the stored
\* derivative at every breakpoint 0..size-1 is the PCHIP derivative of the
\* points in the table, and computing the derivatives reads only segment
\* slopes with index in 0..size-2, also for a table of one point.
C15_SlopesFollowPoints == DerivativesCurrent /\ ReadsInsideDelta


-----------------------------------------------------------------------------
\* RTD_385.h: the two inverters of the Callendar-Van Dusen equation

\* enum FunctionType
RTD_CVD_385 == 2

\* a float the model's rationals cannot hold, kept as the expression it is
Unevaluated(e, args) == [expr |-> e, of |-> args]

\* the largest k in lo..hi with k * k <= n
RECURSIVE Bisect(_, _, _)
Bisect(n, lo, hi) ==
    IF lo >= hi THEN lo
    ELSE LET mid == (lo + hi + 1) \div 2
         IN  IF mid * mid <= n THEN Bisect(n, mid, hi)
             ELSE Bisect(n, lo, mid - 1)

ISqrt(n) == Bisect(n, 0, IF n < 46340 THEN n ELSE 46340)

IsSquare(n) == n >= 0 /\ ISqrt(n) * ISqrt(n) = n

\* sqrtf(q) is a float of the model: q is NaN, infinite, negative, or the
\* square of a rational
HasRoot(q) ==
    IsNaN(q) \/ IsInf(q) \/ q[1] < 0 \/ (IsSquare(q[1]) /\ IsSquare(q[2]))

sqrtf(q) ==
    IF IsNaN(q) \/ q[1] < 0 THEN NaN
    ELSE IF IsInf(q) THEN PInf
    ELSE IF HasRoot(q) THEN <<ISqrt(q[1]), ISqrt(q[2])>>
    ELSE Unevaluated("sqrtf", <<q>>)

\* the macro constrain on floats
constrain_f(amt, low, high) ==
    IF FLt(amt, low) THEN low ELSE IF FGt(amt, high) THEN high ELSE amt

R_RATIO_MIN == Norm(185201, 1000000)
R_RATIO_MAX == Norm(3904811, 1000000)

\* CVD_COEFFS[0], CVD_COEFFS[1], CVD_COEFFS[2]; A_CVD, B_CVD, C_CVD
A_CVD == Norm(39083, 10000000)
B_CVD == Norm(-231, 400000000)
C_CVD == Unevaluated("-4.183e-12f", <<>>)

COEFFS_NEG ==
    [i \in 0..7 |->
        CASE i = 0 -> Norm(-24202168, 100000)
          [] i = 1 -> Norm(22230167, 100000)
          [] i = 2 -> Norm(25777109, 1000000)
          [] i = 3 -> Norm(-47150176, 10000000)
          [] i = 4 -> Norm(-27283411, 10000000)
          [] i = 5 -> Norm(11117969, 10000000)
          [] i = 6 -> Norm(41203939, 100000000)
          [] i = 7 -> Norm(-13757725, 100000000)]

\* the k-th store of RTD385::setR0(r0)
RTD385_setR0_store(o, k, r0) ==
    IF k = 1 THEN [o EXCEPT !.cfg.f[0] = r0]
    ELSE [o EXCEPT !.rt.inv = FMul(FMul(F(2), o.cfg.f[2]), o.cfg.f[0])]

RTD385(r0) ==
    LET c0 == FunctionConfig(RTD_CVD_385)
        c1 == SetF(SetF(SetF(SetF(c0, 0, r0), 1, A_CVD), 2, B_CVD), 3, C_CVD)
    IN  [kind |-> "RTD385",
         cfg  |-> c1,
         rt   |-> [inv |-> FMul(FMul(F(2), B_CVD), r0)]]

\* RTD385::apply up to the discriminant: the clamp, a, b, c and d
RTD385_apply_d(o, R) ==
    LET R0 == o.cfg.f[0]
        Rc == constrain_f(R, FMul(R0, R_RATIO_MIN), FMul(R0, R_RATIO_MAX))
        a  == FMul(o.cfg.f[2], R0)
        b  == FMul(o.cfg.f[1], R0)
        c  == FSub(R0, Rc)
        d  == FSub(FMul(b, b), FMul(FMul(F(4), a), c))
    IN  [R |-> Rc, a |-> a, b |-> b, d |-> d, R0 |-> R0]

\* RTD385::apply from T = (-b + sqrtf(d)) * inv to the return
RTD385_apply_T(o, h) ==
    LET T == IF HasRoot(h.d)
             THEN FMul(FAdd(FNeg(h.b), sqrtf(h.d)), o.rt.inv)
             ELSE Unevaluated("(-b + sqrtf(d)) * inv", <<h.b, h.d, o.rt.inv>>)
    IN  IF FGe(h.R, o.cfg.f[0]) THEN T
        ELSE Unevaluated("newton", <<h.R, o.cfg.f[0], h.b, h.d, o.rt.inv>>)

\* the k-th store of RTD385Approximation::setR0(r0)
RTD385Approximation_setR0_store(o, k, r0) ==
    CASE k = 1 -> [o EXCEPT !.cfg.f[8] = r0]
      [] k = 2 -> [o EXCEPT !.cfg.f[9] = FDiv(F(1), r0)]
      [] k = 3 -> [o EXCEPT !.cfg.f[11] = FMul(A_CVD, r0)]
      [] k = 4 -> [o EXCEPT !.cfg.f[13] = FMul(o.cfg.f[11], o.cfg.f[11])]
      [] k = 5 -> [o EXCEPT !.cfg.f[10] = FMul(FMul(F(4), B_CVD), r0)]
      [] k = 6 -> [o EXCEPT !.cfg.f[12] =
                      FDiv(F(1), FMul(FMul(F(2), B_CVD), r0))]

RECURSIVE RTD385Approximation_setR0_upto(_, _, _)
RTD385Approximation_setR0_upto(o, k, r0) ==
    IF k = 0 THEN o
    ELSE RTD385Approximation_setR0_store(
             RTD385Approximation_setR0_upto(o, k - 1, r0), k, r0)

RTD385Approximation(r0) ==
    LET o0 == [PolynomialMapper EXCEPT !.kind = "RTD385Approximation"]
        o1 == RTD385Approximation_setR0_upto(o0, 6, r0)
        o2 == setDegree(o1, 7).obj
    IN  [o2 EXCEPT !.cfg.f =
            [i \in DOMAIN o2.cfg.f |->
                IF i <= o2.cfg.u[POS_DEGREE] THEN COEFFS_NEG[i]
                ELSE o2.cfg.f[i]]]

\* RTD385Approximation::apply up to r_ratio
RTD385Approximation_apply_ratio(o, R) ==
    [R |-> R, r_ratio |-> FMul(R, o.cfg.f[9]), InvR0 |-> o.cfg.f[9]]

\* RTD385Approximation::apply from the test of r_ratio to the return
RTD385Approximation_apply_T(o, h) ==
    IF FLt(h.r_ratio, F(1))
    THEN Unevaluated("PolynomialMapper::apply", <<h.r_ratio>>)
    ELSE LET c_term == FSub(o.cfg.f[8], h.R)
             discriminant == FSub(o.cfg.f[13], FMul(o.cfg.f[10], c_term))
         IN  IF HasRoot(discriminant)
             THEN FMul(FAdd(FNeg(o.cfg.f[11]), sqrtf(discriminant)),
                       o.cfg.f[12])
             ELSE Unevaluated("(-A_coeff + sqrtf(discriminant)) * Inv2B",
                              <<o.cfg.f[11], discriminant, o.cfg.f[12]>>)

-----------------------------------------------------------------------------
\* One RTD inverter shared by two tasks: one calls setR0(r0), the other calls
\* apply(R), as a pipeline push does.  Neither function takes a lock, so the
\* stores of setR0 and the reads of apply interleave.  pc.set is the number of
\* stores the setR0 in progress has done (0: none in progress), pc.app is 1
\* between the two parts of apply.

Inverters == {"RTD385", "RTD385Approximation"}

R0Values == {F(10000), F(20000)}

\* R(T) = R0 (1 + A T + B T^2), the equation for T >= 0
CVD(T, r0) ==
    FMul(r0, FAdd(FAdd(F(1), FMul(A_CVD, T)), FMul(B_CVD, FMul(T, T))))

Temperatures == {F(0), F(200), F(400)}

\* resistances below R(-200), below R0, at R(T) of the temperatures, above
\* R(661) and above R(850) of the smaller R0
Resistances ==
    {F(1000), F(5000), F(35000), F(40000)}
        \cup {CVD(T, r0) : T \in Temperatures, r0 \in R0Values}

NumStores(kind) == IF kind = "RTD385" THEN 2 ELSE 6

setR0_store(o, k, r0) ==
    IF o.kind = "RTD385" THEN RTD385_setR0_store(o, k, r0)
    ELSE RTD385Approximation_setR0_store(o, k, r0)

\* R0() of either inverter
R0Of(o) == IF o.kind = "RTD385" THEN o.cfg.f[0] ELSE o.cfg.f[8]

NoLocals == [r0 |-> F(0), R |-> F(0), h |-> NoRt, quiet |-> TRUE]

InitRTD ==
    /\ obj \in {RTD385(F(10000)), RTD385Approximation(F(10000))}
    /\ pc = [set |-> 0, app |-> 0]
    /\ loc = NoLocals
    /\ last = NoCall
    /\ hist = <<>>
    /\ pushed = <<>>
    /\ lock = 0
    /\ processStageValue = <<>>
    /\ processor = <<>>
    /\ pool = <<>>
    /\ published = {}
    /\ lastPushed = [set |-> FALSE]
    /\ ops = 0

\* setR0(r0) is called and does its first store
SetR0Call ==
    /\ pc.set = 0
    /\ \E r0 \in R0Values :
        /\ obj' = setR0_store(obj, 1, r0)
        /\ loc' = [loc EXCEPT !.r0 = r0, !.quiet = FALSE]
    /\ pc' = [pc EXCEPT !.set = 1]
    /\ UNCHANGED <<last, hist, pushed, lock, processStageValue, processor,
                 pool, published, lastPushed, ops>>

\* the next store of the setR0 in progress; it returns after the last one
SetR0Store ==
    /\ pc.set > 0
    /\ obj' = setR0_store(obj, pc.set + 1, loc.r0)
    /\ pc' = [pc EXCEPT !.set = IF pc.set + 1 = NumStores(obj.kind) THEN 0
                                 ELSE pc.set + 1]
    /\ loc' = [loc EXCEPT !.quiet = FALSE]
    /\ UNCHANGED <<last, hist, pushed, lock, processStageValue, processor,
                 pool, published, lastPushed, ops>>

\* apply(R) is called and runs up to the discriminant (RTD385) or the ratio
\* (RTD385Approximation)
ApplyCall ==
    /\ pc.app = 0
    /\ \E R \in Resistances :
        loc' = [loc EXCEPT
                   !.R = R,
                   !.h = IF obj.kind = "RTD385" THEN RTD385_apply_d(obj, R)
                         ELSE RTD385Approximation_apply_ratio(obj, R),
                   !.quiet = (pc.set = 0)]
    /\ pc' = [pc EXCEPT !.app = 1]
    /\ UNCHANGED <<obj, last, hist, pushed, lock, processStageValue, processor,
                 pool, published, lastPushed, ops>>

\* the constants the second part of apply reads
Seen(o) ==
    IF o.kind = "RTD385" THEN [R0 |-> o.cfg.f[0], inv |-> o.rt.inv]
    ELSE [R0 |-> o.cfg.f[8], A4R0 |-> o.cfg.f[10], A_coeff |-> o.cfg.f[11],
          Inv2B |-> o.cfg.f[12], A_coeff2 |-> o.cfg.f[13]]

\* apply runs to its return
ApplyReturn ==
    /\ pc.app = 1
    /\ last' = [op    |-> "apply",
                kind  |-> obj.kind,
                a     |-> <<loc.R>>,
                used  |-> loc.h.R,
                head  |-> loc.h,
                seen  |-> Seen(obj),
                quiet |-> loc.quiet,
                ret   |-> IF obj.kind = "RTD385"
                          THEN RTD385_apply_T(obj, loc.h)
                          ELSE RTD385Approximation_apply_T(obj, loc.h)]
    /\ pc' = [pc EXCEPT !.app = 0]
    /\ loc' = [loc EXCEPT !.R = F(0), !.h = NoRt]
    /\ UNCHANGED <<obj, hist, pushed, lock, processStageValue, processor,
                 pool, published, lastPushed, ops>>

NextRTD == SetR0Call \/ SetR0Store \/ ApplyCall \/ ApplyReturn

SpecRTD == InitRTD /\ [][NextRTD]_vars

-----------------------------------------------------------------------------
\* Properties of the RTD inverters

\* an apply that has returned, with no store of setR0 between its call and
\* its return
QuietApply == last.op = "apply" /\ last.quiet

\* (-b + sqrt(b^2 - 4ac)) / (2a) with a = B R0, b = A R0, c = R0 - R
QuadraticRoot(r0, R) ==
    LET a == FMul(B_CVD, r0)
        b == FMul(A_CVD, r0)
        c == FSub(r0, R)
        d == FSub(FMul(b, b), FMul(FMul(F(4), a), c))
    IN  FDiv(FAdd(FNeg(b), sqrtf(d)), FMul(F(2), a))

\* the discriminant of the quadratic for resistance R has a root in the model
RootInModel(r0, R) ==
    LET a == FMul(B_CVD, r0)
        b == FMul(A_CVD, r0)
    IN  HasRoot(FSub(FMul(b, b), FMul(FMul(F(4), a), FSub(r0, R))))

RoundTrip ==
    \A T \in Temperatures :
        (QuietApply /\ last.a[1] = CVD(T, last.seen.R0)) => last.ret = T

RootOfQuadratic ==
    (/\ QuietApply
     /\ FGe(last.a[1], last.seen.R0)
     /\ FLe(last.a[1], CVD(F(661), last.seen.R0))
     /\ RootInModel(last.seen.R0, last.a[1]))
        => last.ret = QuadraticRoot(last.seen.R0, last.a[1])

\* C11: applying an RTD inverter to R(T) = R0 (1 + A T + B T^2) for a
\* temperature T >= 0 of the valid span returns T, and for R >= R0 the result
\* is the root (-b + sqrt(b^2 - 4ac)) / (2a) of the quadratic, with a = B R0,
\* b = A R0, c = R0 - R
C11_InversionRoundTrip == RoundTrip /\ RootOfQuadratic

\* the constants one apply computed with belong to one R0
SeenOneR0 ==
    last.op = "apply" =>
        IF last.kind = "RTD385"
        THEN last.seen.inv = FMul(FMul(F(2), B_CVD), last.head.R0)
        ELSE FGe(last.head.r_ratio, F(1)) =>
                LET r0 == last.seen.R0
                IN  /\ last.head.InvR0 = FDiv(F(1), r0)
                    /\ last.seen.A_coeff = FMul(A_CVD, r0)
                    /\ last.seen.A_coeff2 = FMul(FMul(A_CVD, r0), FMul(A_CVD, r0))
                    /\ last.seen.A4R0 = FMul(FMul(F(4), B_CVD), r0)
                    /\ last.seen.Inv2B = FDiv(F(1), FMul(FMul(F(2), B_CVD), r0))

\* with no setR0 in progress every derived constant of the object is its
\* defining expression of the object's R0
DerivedCurrent ==
    pc.set = 0 =>
        LET r0 == R0Of(obj)
        IN  IF obj.kind = "RTD385"
            THEN obj.rt.inv = FMul(FMul(F(2), obj.cfg.f[2]), r0)
            ELSE /\ obj.cfg.f[9] = FDiv(F(1), r0)
                 /\ obj.cfg.f[11] = FMul(A_CVD, r0)
                 /\ obj.cfg.f[13] = FMul(FMul(A_CVD, r0), FMul(A_CVD, r0))
                 /\ obj.cfg.f[10] = FMul(FMul(F(4), B_CVD), r0)
                 /\ obj.cfg.f[12] = FDiv(F(1), FMul(FMul(F(2), B_CVD), r0))

\* C12: setR0 is atomic with respect to apply: an apply running while another
\* task calls setR0 never computes with an R0 together with derived constants
\* of another R0, and after setR0 returns every derived constant equals its
\* defining expression of the new R0
C12_SetR0Atomic == SeenOneR0 /\ DerivedCurrent

\* C13: each RTD inverter inverts the input resistance clamped to the range
\* from R(-200 C) = R0 R_RATIO_MIN to R(661 C) = R0 (1 + 661 A + 661^2 B)
C13_ClampedToSpan ==
    QuietApply =>
        last.used = constrain_f(last.a[1], FMul(last.seen.R0, R_RATIO_MIN),
                                CVD(F(661), last.seen.R0))

=============================================================================
